---- MODULE Spec2Model ----
(***************************************************************************)
(* Model of moonwalkingbits/apollo-configuration: Configuration            *)
(* (src/lib/Configuration.js) and mergeObjects (src/lib/mergeObjects.js)   *)
(* over a JavaScript heap.  Objects and arrays are heap cells with         *)
(* identity, so that aliasing between configurations is observable.        *)
(***************************************************************************)
EXTENDS Integers, Sequences, FiniteSets, TLC

VARIABLES heap, cfg, last, pre, snap, nops, preheap, bld

vars == <<heap, cfg, last, pre, snap, nops, preheap, bld>>

(***************************************************************************)
(* Bounds.                                                                 *)
(***************************************************************************)
\* Number of Configuration calls made in one run.
MaxOps == 2

(***************************************************************************)
(* JavaScript values.  A value is a record [t, v]: t is the kind, v the    *)
(* payload (the address of a heap cell for a reference).  Strings of the   *)
(* model are one-character strings.                                        *)
(***************************************************************************)
NULL == [t |-> "null", v |-> 0]
UNDEF == [t |-> "undefined", v |-> 0]
HOLE == [t |-> "hole", v |-> 0]
FN == [t |-> "function", v |-> 0]
TRUE_ == [t |-> "boolean", v |-> 1]
FALSE_ == [t |-> "boolean", v |-> 0]
Str(n) == [t |-> "string", v |-> n]
Num(n) == [t |-> "number", v |-> n]
Ref(a) == [t |-> "ref", v |-> a]
BoolVal(b) == IF b THEN TRUE_ ELSE FALSE_

\* A heap cell: a plain object (own properties) or an array (elements, of
\* which some may be holes, and own named properties).
NoProps == [k \in {} |-> NULL]
MkObj(props) == [kind |-> "obj", props |-> props, elems |-> <<>>]
MkArr(elems) == [kind |-> "arr", props |-> NoProps, elems |-> elems]
EmptyObj == MkObj(NoProps)

IsRef(val) == val.t = "ref"
IsObjRef(h, val) == IsRef(val) /\ h[val.v].kind = "obj"
IsArrRef(h, val) == IsRef(val) /\ h[val.v].kind = "arr"

\* Array index keys: the canonical numeric strings.
IndexKeys == <<"0", "1", "2", "3", "4", "5", "6", "7">>
IsIndexKey(k) == \E i \in DOMAIN IndexKeys : IndexKeys[i] = k
IndexOf(k) == CHOOSE i \in DOMAIN IndexKeys : IndexKeys[i] = k

\* Properties every object and array inherits from its prototype.
ProtoKeys == {"toString"}

\* typeof value
TypeOf(val) ==
    CASE val.t \in {"null", "ref"} -> "object"
      [] OTHER -> val.t

\* Own property keys of a cell.
OwnKeys(c) ==
    IF c.kind = "arr"
    THEN {IndexKeys[i] : i \in {j \in DOMAIN c.elems : c.elems[j] # HOLE}}
            \cup DOMAIN c.props
    ELSE DOMAIN c.props

\* cell[key] for an own key.
OwnGet(c, key) ==
    IF c.kind = "arr" /\ IsIndexKey(key)
    THEN c.elems[IndexOf(key)]
    ELSE c.props[key]

\* key in object (own or inherited); the object is a heap cell.
KeyIn(c, key) == key \in OwnKeys(c) \/ key \in ProtoKeys

\* object[key] for a heap cell: own, inherited or undefined.
ReadProp(c, key) ==
    IF key \in OwnKeys(c) THEN OwnGet(c, key)
    ELSE IF key \in ProtoKeys THEN FN
    ELSE UNDEF

\* object[key] = value on a heap cell.
WriteProp(c, key, val) ==
    IF c.kind = "arr" /\ IsIndexKey(key)
    THEN LET i == IndexOf(key)
             n == IF i > Len(c.elems) THEN i ELSE Len(c.elems)
         IN [c EXCEPT !.elems =
                [j \in 1..n |-> IF j = i THEN val
                                ELSE IF j <= Len(c.elems) THEN c.elems[j]
                                ELSE HOLE]]
    ELSE [c EXCEPT !.props =
                [k \in DOMAIN c.props \cup {key} |->
                    IF k = key THEN val ELSE c.props[k]]]

\* delete object[key] on a heap cell.
DeleteProp(c, key) ==
    IF c.kind = "arr" /\ IsIndexKey(key)
    THEN IF IndexOf(key) <= Len(c.elems)
         THEN [c EXCEPT !.elems[IndexOf(key)] = HOLE]
         ELSE c
    ELSE [c EXCEPT !.props = [k \in DOMAIN c.props \ {key} |-> c.props[k]]]

\* A new cell is allocated at the end of the heap.
Alloc(h, c) == Append(h, c)
NewAddr(h) == Len(h) + 1

(***************************************************************************)
(* Structural value of a heap value: the tree it denotes, for deep         *)
(* equality (chai's eql).  fuel bounds the depth by the heap's size; a     *)
(* cyclic value is unfolded that deep and cut there.                       *)
(***************************************************************************)
CUT == [t |-> "cut", v |-> 0]

RECURSIVE TreeAt(_, _, _)
TreeAt(h, val, fuel) ==
    IF ~IsRef(val) THEN val
    ELSE IF fuel = 0 THEN CUT
    ELSE LET c == h[val.v]
         IN [kind |-> c.kind,
             props |-> [k \in DOMAIN c.props |-> TreeAt(h, c.props[k], fuel - 1)],
             elems |-> [i \in DOMAIN c.elems |-> TreeAt(h, c.elems[i], fuel - 1)]]

TreeOf(h, val) == TreeAt(h, val, Len(h))

(***************************************************************************)
(* Key paths.  A key path string is a sequence of tokens, each a key or    *)
(* the separator "."; split(".") cuts it at the separators.                *)
(***************************************************************************)
RECURSIVE SplitFrom(_, _, _)
SplitFrom(s, i, cur) ==
    IF i > Len(s) THEN <<cur>>
    ELSE IF s[i] = "." THEN <<cur>> \o SplitFrom(s, i + 1, "")
    ELSE SplitFrom(s, i + 1, s[i])

Split(keyPath) == SplitFrom(keyPath, 1, "")

(***************************************************************************)
(* Configuration.has and Configuration.get.  Results are [ret, threw]:     *)
(* `key in null` raises a TypeError.                                       *)
(***************************************************************************)
RECURSIVE HasWalk(_, _, _)
HasWalk(h, intermediate, properties) ==
    IF properties = <<>> THEN [ret |-> TRUE_, threw |-> FALSE]
    ELSE LET key == Head(properties) IN
         IF TypeOf(intermediate) # "object"
         THEN [ret |-> FALSE_, threw |-> FALSE]
         ELSE IF intermediate = NULL
         THEN [ret |-> UNDEF, threw |-> TRUE]
         ELSE IF ~KeyIn(h[intermediate.v], key)
         THEN [ret |-> FALSE_, threw |-> FALSE]
         ELSE HasWalk(h, ReadProp(h[intermediate.v], key), Tail(properties))

Has(h, settings, keyPath) == HasWalk(h, Ref(settings), Split(keyPath))

RECURSIVE GetWalk(_, _, _, _)
GetWalk(h, intermediate, properties, defaultValue) ==
    IF properties = <<>> THEN [ret |-> intermediate, threw |-> FALSE]
    ELSE LET key == Head(properties) IN
         IF TypeOf(intermediate) # "object"
         THEN [ret |-> defaultValue, threw |-> FALSE]
         ELSE IF intermediate = NULL
         THEN [ret |-> UNDEF, threw |-> TRUE]
         ELSE IF ~KeyIn(h[intermediate.v], key)
         THEN [ret |-> defaultValue, threw |-> FALSE]
         ELSE GetWalk(h, ReadProp(h[intermediate.v], key), Tail(properties), defaultValue)

Get(h, settings, keyPath, defaultValue) ==
    GetWalk(h, Ref(settings), Split(keyPath), defaultValue)

(***************************************************************************)
(* Configuration.set: walks all segments but the last, replacing whatever  *)
(* is not typeof "object" by a fresh {}, then assigns.  Result: [h, threw].*)
(***************************************************************************)
RECURSIVE SetWalk(_, _, _, _)
SetWalk(h, intermediate, properties, value) ==
    IF intermediate = NULL THEN [h |-> h, threw |-> TRUE]
    ELSE LET key == Head(properties)
             at == intermediate.v
         IN IF Len(properties) > 1
            THEN IF TypeOf(ReadProp(h[at], key)) # "object"
                 THEN LET n == NewAddr(h)
                          h1 == Alloc([h EXCEPT ![at] = WriteProp(@, key, Ref(n))], EmptyObj)
                      IN SetWalk(h1, Ref(n), Tail(properties), value)
                 ELSE SetWalk(h, ReadProp(h[at], key), Tail(properties), value)
            ELSE [h |-> [h EXCEPT ![at] = WriteProp(@, key, value)], threw |-> FALSE]

Set(h, settings, keyPath, value) == SetWalk(h, Ref(settings), Split(keyPath), value)

(***************************************************************************)
(* Configuration.remove: walks all segments but the last, returning when   *)
(* the next value is not typeof "object", then deletes.  Result: [h, threw]*)
(***************************************************************************)
RECURSIVE RemoveWalk(_, _, _)

\* A remove that repairs the path as set does before it deletes.
RemoveWalkRepairing(h, intermediate, properties) ==
    IF intermediate = NULL THEN [h |-> h, threw |-> TRUE]
    ELSE LET key == Head(properties)
             at == intermediate.v
         IN IF Len(properties) > 1
            THEN IF TypeOf(ReadProp(h[at], key)) # "object"
                 THEN LET n == NewAddr(h)
                          h1 == Alloc([h EXCEPT ![at] = WriteProp(@, key, Ref(n))], EmptyObj)
                      IN RemoveWalk(h1, Ref(n), Tail(properties))
                 ELSE RemoveWalk(h, ReadProp(h[at], key), Tail(properties))
            ELSE [h |-> [h EXCEPT ![at] = DeleteProp(@, key)], threw |-> FALSE]

RemoveWalk(h, intermediate, properties) ==
    IF intermediate = NULL THEN [h |-> h, threw |-> TRUE]
    ELSE LET key == Head(properties)
             at == intermediate.v
         IN IF Len(properties) > 1
            THEN IF TypeOf(ReadProp(h[at], key)) # "object"
                 THEN [h |-> h, threw |-> FALSE]
                 ELSE RemoveWalk(h, ReadProp(h[at], key), Tail(properties))
            ELSE [h |-> [h EXCEPT ![at] = DeleteProp(@, key)], threw |-> FALSE]

Remove(h, settings, keyPath) == RemoveWalk(h, Ref(settings), Split(keyPath))

(***************************************************************************)
(* mergeObjects.                                                           *)
(***************************************************************************)
MERGE_INDEXED == "MERGE_INDEXED"
REPLACE_INDEXED == "REPLACE_INDEXED"

\* isObject(value): Object.prototype.toString.call(value) === "[object Object]"
\* An isObject that tests typeof x === "object" and so takes arrays too.
IsObjectTypeof(h, val) == IsRef(val)

IsObject(h, val) == IsObjRef(h, val)

\* Array.isArray(value)
IsArray(h, val) == IsArrRef(h, val)

\* The own enumerable properties Object.assign({}, a) copies from a.
OwnEnumerable(h, a) ==
    IF IsRef(a)
    THEN LET c == h[a.v] IN [k \in OwnKeys(c) |-> OwnGet(c, k)]
    ELSE IF a.t = "string" THEN [k \in {"0"} |-> a]
    ELSE NoProps

\* a[key] for any value a but null and undefined.
ReadVal(h, a, key) ==
    IF IsRef(a) THEN ReadProp(h[a.v], key)
    ELSE IF a.t = "string" /\ key = "0" THEN a
    ELSE IF key \in ProtoKeys THEN FN
    ELSE UNDEF

\* [...array]: the elements, a hole read as undefined.
Spread(c) == [i \in DOMAIN c.elems |-> IF c.elems[i] = HOLE THEN UNDEF ELSE c.elems[i]]

\* Array.from(new Set(s)): first occurrences, in order.  Primitives are
\* compared by value, references by identity.
RECURSIVE Dedup(_)
Dedup(s) ==
    IF s = <<>> THEN <<>>
    ELSE LET init == Dedup(SubSeq(s, 1, Len(s) - 1))
             x == s[Len(s)]
         IN IF \E i \in DOMAIN init : init[i] = x THEN init ELSE Append(init, x)

\* Object.entries(b): the own keys of b, in some fixed order.
RECURSIVE KeySeq(_)
KeySeq(S) ==
    IF S = {} THEN <<>>
    ELSE LET k == CHOOSE x \in S : TRUE IN <<k>> \o KeySeq(S \ {k})

RECURSIVE MergeObjects(_, _, _, _)
RECURSIVE MergeEntries(_, _, _, _, _, _)

\* A loop that assigns every value of b, as Object.assign does (no recursion
\* into nested objects, no union of arrays).
MergeEntriesShallow(h, n, a, b, keys, mergeStrategy) ==
    IF keys = <<>> THEN [h |-> h, ret |-> Ref(n), threw |-> FALSE]
    ELSE LET key == Head(keys)
             value == OwnGet(h[b.v], key)
         IN MergeEntries([h EXCEPT ![n] = WriteProp(@, key, value)], n, a, b,
                         Tail(keys), mergeStrategy)

\* The loop over Object.entries(b); aCopy is the cell at address n.
MergeEntries(h, n, a, b, keys, mergeStrategy) ==
    IF keys = <<>> THEN [h |-> h, ret |-> Ref(n), threw |-> FALSE]
    ELSE LET key == Head(keys)
             value == OwnGet(h[b.v], key)
             put(hh, val) == [hh EXCEPT ![n] = WriteProp(@, key, val)]
         IN IF ~KeyIn(h[n], key)
            THEN MergeEntries(put(h, value), n, a, b, Tail(keys), mergeStrategy)
            ELSE IF a \in {NULL, UNDEF}
            THEN [h |-> h, ret |-> UNDEF, threw |-> TRUE]
            ELSE IF IsObject(h, ReadVal(h, a, key)) /\ IsObject(h, value)
            THEN LET r == MergeObjects(h, ReadProp(h[n], key), value, mergeStrategy)
                 IN IF r.threw THEN r
                    ELSE MergeEntries(put(r.h, r.ret), n, a, b, Tail(keys), mergeStrategy)
            ELSE IF mergeStrategy = MERGE_INDEXED
                    /\ IsArray(h, ReadProp(h[n], key)) /\ IsArray(h, value)
            THEN LET union == Dedup(Spread(h[ReadProp(h[n], key).v]) \o Spread(h[value.v]))
                     m == NewAddr(h)
                 IN MergeEntries(put(Alloc(h, MkArr(union)), Ref(m)), n, a, b,
                                 Tail(keys), mergeStrategy)
            ELSE MergeEntries(put(h, value), n, a, b, Tail(keys), mergeStrategy)

\* A mergeObjects that merges into a itself instead of into a copy of it.
MergeObjectsInPlace(h, a, b, mergeStrategy) ==
    IF IsObjRef(h, a)
    THEN MergeEntries(h, a.v, a, b, KeySeq(OwnKeys(h[b.v])), mergeStrategy)
    ELSE MergeEntries(Alloc(h, MkObj(OwnEnumerable(h, a))), NewAddr(h), a, b,
                      KeySeq(OwnKeys(h[b.v])), mergeStrategy)

\* A mergeObjects that starts from {} instead of a copy of a.
MergeObjectsFromEmpty(h, a, b, mergeStrategy) ==
    MergeEntries(Alloc(h, EmptyObj), NewAddr(h), a, b, KeySeq(OwnKeys(h[b.v])),
                 mergeStrategy)

\* mergeObjects(a, b, mergeStrategy): [h, ret, threw].
MergeObjects(h, a, b, mergeStrategy) ==
    LET n == NewAddr(h)
        h1 == Alloc(h, MkObj(OwnEnumerable(h, a)))
    IN MergeEntries(h1, n, a, b, KeySeq(OwnKeys(h[b.v])), mergeStrategy)

(***************************************************************************)
(* Configuration.merge(configuration, keyPath, strategy).  NoKeyPath is    *)
(* keyPath = null.  Result: [h, ret, threw], ret the settings of the       *)
(* Configuration returned.                                                 *)
(***************************************************************************)
NoKeyPath == <<>>

\* A merge that, without a key path, returns the receiver's own settings.
MergeKeepingReceiver(h, settings, other, keyPath, strategy) ==
    IF keyPath = NoKeyPath THEN [h |-> h, ret |-> Ref(settings), threw |-> FALSE]
    ELSE LET h0 == Alloc(h, EmptyObj)
             base == Get(h0, settings, keyPath, Ref(NewAddr(h)))
         IN IF base.threw THEN [h |-> h0, ret |-> UNDEF, threw |-> TRUE]
            ELSE LET m == MergeObjects(h0, base.ret, Ref(other), strategy)
                 IN IF m.threw THEN m
                    ELSE LET s == Set(m.h, settings, keyPath, m.ret)
                         IN [h |-> s.h, ret |-> Ref(settings), threw |-> s.threw]

Merge(h, settings, other, keyPath, strategy) ==
    LET d == NewAddr(h)
        h0 == IF keyPath # NoKeyPath THEN Alloc(h, EmptyObj) ELSE h
        base == IF keyPath # NoKeyPath
                THEN Get(h0, settings, keyPath, Ref(d))
                ELSE [ret |-> Ref(settings), threw |-> FALSE]
    IN IF base.threw THEN [h |-> h0, ret |-> UNDEF, threw |-> TRUE]
       ELSE LET m == MergeObjects(h0, base.ret, Ref(other), strategy)
            IN IF m.threw \/ keyPath = NoKeyPath THEN m
               ELSE LET s == Set(m.h, settings, keyPath, m.ret)
                    IN [h |-> s.h, ret |-> Ref(settings), threw |-> s.threw]

(***************************************************************************)
(* The inputs of the model.                                                *)
(***************************************************************************)
\* Settings trees a Configuration is constructed with, as heaps whose first
\* cell is the root.
SeedsA ==
    { <<EmptyObj>>,
      <<MkObj("a" :> Str(1))>>,
      <<MkObj("a" :> NULL)>>,
      <<MkObj("a" :> Ref(2)), MkObj("b" :> Str(1))>>,
      <<MkObj("a" :> Ref(2)), MkArr(<<Str(1), Str(2)>>)>>,
      <<MkObj(("a" :> Ref(2)) @@ ("b" :> Num(1))), MkObj("b" :> NULL)>>,
      <<MkObj("a" :> Num(1))>>,
      <<MkObj("a" :> Ref(2)), MkObj("b" :> TRUE_)>> }

SeedsB ==
    { <<EmptyObj>>,
      <<MkObj("b" :> Str(2))>>,
      <<MkObj("a" :> Ref(2)), MkObj("a" :> Str(2))>>,
      <<MkObj("a" :> Ref(2)), MkArr(<<Str(2), Str(3)>>)>> }

\* The cells of a seed moved up by k addresses.
ShiftVal(val, k) == IF IsRef(val) THEN Ref(val.v + k) ELSE val
Shift(seed, k) ==
    [i \in DOMAIN seed |->
        [kind |-> seed[i].kind,
         props |-> [x \in DOMAIN seed[i].props |-> ShiftVal(seed[i].props[x], k)],
         elems |-> [j \in DOMAIN seed[i].elems |-> ShiftVal(seed[i].elems[j], k)]]]

\* Key path strings the calls are made with.
KeyPaths ==
    { <<"a">>, <<"toString">>,
      <<"a", ".", "b">>, <<"a", ".", "0">>,
      <<"a", ".", "b", ".", "a">> }

\* Values assigned by set: scalars and a new array.
SetArgs == {"null", "string", "array"}

\* Default values passed to get; "none" is the call without one.
GetDefaults == {"none", "string"}

Strategies == {MERGE_INDEXED, REPLACE_INDEXED}

\* The Configuration instance the calls are made on: the receiver a until
\* it is merged, the Configuration the merge returned from then on.
Subjects(c) == IF c.r # 0 THEN {"r"} ELSE {"a"}

\* all() of each Configuration, as trees (undefined for r before a merge).
Trees(h, c) ==
    [x \in {"a", "b", "r"} |-> IF c[x] = 0 THEN UNDEF ELSE TreeOf(h, Ref(c[x]))]

NoCall == [op |-> "new", c |-> "a", kp |-> NoKeyPath, val |-> UNDEF,
           strat |-> "", ret |-> UNDEF, threw |-> FALSE]

(***************************************************************************)
(* State: the heap; the settings of the Configurations a, b and r (r is    *)
(* the one the last merge returned, 0 before); the last call with its      *)
(* result; the trees of a and b before the last call; the tree of a when   *)
(* the last merge returned; the heap before the last call; the state of    *)
(* the ConfigurationBuilder (unused while Configurations are called        *)
(* directly).                                                              *)
(***************************************************************************)
NoBuilder == [pc |-> "none"]

Init ==
    \E sa \in SeedsA, sb \in SeedsB :
        /\ heap = sa \o Shift(sb, Len(sa))
        /\ cfg = [a |-> 1, b |-> Len(sa) + 1, r |-> 0]
        /\ last = NoCall
        /\ pre = Trees(sa \o Shift(sb, Len(sa)), [a |-> 1, b |-> Len(sa) + 1, r |-> 0])
        /\ snap = UNDEF
        /\ nops = 0
        /\ preheap = sa \o Shift(sb, Len(sa))
        /\ bld = NoBuilder

Called(op, c, kp, val, strat, res) ==
    /\ last' = [op |-> op, c |-> c, kp |-> kp, val |-> val, strat |-> strat,
                ret |-> res.ret, threw |-> res.threw]
    /\ pre' = Trees(heap, cfg)
    /\ nops' = nops + 1
    /\ preheap' = heap
    /\ UNCHANGED bld

\* configuration.set(keyPath, value)
DoSet ==
    \E c \in Subjects(cfg), kp \in KeyPaths, arg \in SetArgs :
        /\ nops < MaxOps
        /\ LET h0 == IF arg = "array" THEN Alloc(heap, MkArr(<<Str(1)>>)) ELSE heap
               value == CASE arg = "null" -> NULL
                          [] arg = "string" -> Str(1)
                          [] OTHER -> Ref(NewAddr(heap))
               res == Set(h0, cfg[c], kp, value)
           IN /\ heap' = res.h
              /\ Called("set", c, kp, value, "", [ret |-> UNDEF, threw |-> res.threw])
        /\ UNCHANGED <<cfg, snap>>

\* configuration.has(keyPath)
DoHas ==
    \E c \in Subjects(cfg), kp \in KeyPaths :
        /\ nops < MaxOps
        /\ Called("has", c, kp, UNDEF, "", Has(heap, cfg[c], kp))
        /\ UNCHANGED <<heap, cfg, snap>>

\* configuration.get(keyPath) and configuration.get(keyPath, defaultValue)
DoGet ==
    \E c \in Subjects(cfg), kp \in KeyPaths, d \in GetDefaults :
        /\ nops < MaxOps
        /\ LET defaultValue == IF d = "none" THEN NULL ELSE Str(9)
           IN Called("get", c, kp, defaultValue, "", Get(heap, cfg[c], kp, defaultValue))
        /\ UNCHANGED <<heap, cfg, snap>>

\* configuration.remove(keyPath)
DoRemove ==
    \E c \in Subjects(cfg), kp \in KeyPaths :
        /\ nops < MaxOps
        /\ LET res == Remove(heap, cfg[c], kp)
           IN /\ heap' = res.h
              /\ Called("remove", c, kp, UNDEF, "", [ret |-> UNDEF, threw |-> res.threw])
        /\ UNCHANGED <<cfg, snap>>

\* configuration.clear()
DoClear ==
    \E c \in Subjects(cfg) :
        /\ nops < MaxOps
        /\ heap' = Alloc(heap, EmptyObj)
        /\ cfg' = [cfg EXCEPT ![c] = NewAddr(heap)]
        /\ Called("clear", c, NoKeyPath, UNDEF, "", [ret |-> UNDEF, threw |-> FALSE])
        /\ UNCHANGED snap

\* r = a.merge(b), r = a.merge(b, keyPath), each with a strategy
DoMerge ==
    \E kp \in KeyPaths \cup {NoKeyPath}, strategy \in Strategies :
        /\ nops < MaxOps
        /\ LET res == Merge(heap, cfg.a, cfg.b, kp, strategy)
           IN /\ heap' = res.h
              /\ cfg' = IF res.threw THEN cfg ELSE [cfg EXCEPT !.r = res.ret.v]
              /\ snap' = IF res.threw THEN snap ELSE TreeOf(res.h, Ref(cfg.a))
              /\ Called("merge", "a", kp, UNDEF, strategy, res)

Next == DoSet \/ DoHas \/ DoGet \/ DoRemove \/ DoClear \/ DoMerge

Spec == Init /\ [][Next]_vars

(***************************************************************************)
(* mergeObjects(a, b, mergeStrategy) on its own: a and b are drawn from    *)
(* mappings with repeated sequence elements, mappings inside sequences,    *)
(* nested mappings and keys whose values differ in kind; the one action    *)
(* applies the function and keeps the result in r.                         *)
(***************************************************************************)
MergeSeedsA ==
    { <<EmptyObj>>,
      <<MkObj(("a" :> Ref(2)) @@ ("b" :> Str(1))), MkArr(<<Str(1), Str(2), Str(1)>>)>>,
      <<MkObj("a" :> Ref(2)), MkObj(("a" :> Num(1)) @@ ("b" :> Ref(3))),
        MkObj(("a" :> Str(1)) @@ ("b" :> Ref(4))), MkArr(<<Str(1)>>)>>,
      <<MkObj(("a" :> Ref(2)) @@ ("b" :> Ref(4))), MkArr(<<Ref(3)>>),
        MkObj("b" :> Str(1)), MkObj("a" :> Ref(5)), MkObj("b" :> NULL)>>,
      <<MkObj(("a" :> Str(1)) @@ ("b" :> Ref(2))), MkArr(<<Str(1), Num(1)>>)>>,
      <<MkObj(("a" :> Ref(2)) @@ ("b" :> NULL)), MkObj("a" :> Ref(3)),
        MkArr(<<Str(1), Str(2)>>)>> }

MergeSeedsB ==
    { <<EmptyObj>>,
      <<MkObj("a" :> Ref(2)), MkArr(<<Str(2), Str(1), Str(2), Str(3)>>)>>,
      <<MkObj(("a" :> Ref(2)) @@ ("b" :> Str(2))), MkObj("b" :> Ref(3)),
        MkObj(("a" :> Ref(4)) @@ ("b" :> Ref(5))), MkObj("a" :> Str(2)),
        MkArr(<<Str(2)>>)>>,
      <<MkObj(("a" :> Ref(2)) @@ ("b" :> Ref(4))), MkArr(<<Ref(3)>>),
        MkObj("b" :> Str(1)), MkObj("a" :> Ref(5)), MkObj("a" :> Str(2))>>,
      <<MkObj(("a" :> Ref(2)) @@ ("b" :> Ref(3))), MkObj("b" :> Str(2)),
        MkArr(<<Str(1), Str(2)>>)>>,
      <<MkObj(("a" :> Ref(2)) @@ ("b" :> Ref(3))), MkArr(<<Str(1)>>), MkArr(<<>>)>>,
      <<MkObj(("b" :> Ref(2)) @@ ("toString" :> Str(2))), MkObj("b" :> Num(1))>>,
      <<MkObj("a" :> Ref(2)), MkObj("a" :> Ref(3)), MkArr(<<Str(2), Str(3)>>)>> }

MergeInit ==
    \E sa \in MergeSeedsA, sb \in MergeSeedsB :
        /\ heap = sa \o Shift(sb, Len(sa))
        /\ cfg = [a |-> 1, b |-> Len(sa) + 1, r |-> 0]
        /\ last = NoCall
        /\ pre = Trees(sa \o Shift(sb, Len(sa)), [a |-> 1, b |-> Len(sa) + 1, r |-> 0])
        /\ snap = UNDEF
        /\ nops = 0
        /\ preheap = sa \o Shift(sb, Len(sa))
        /\ bld = NoBuilder

\* r = mergeObjects(a, b, mergeStrategy)
DoMergeObjects ==
    \E mergeStrategy \in Strategies :
        /\ nops = 0
        /\ LET res == MergeObjects(heap, Ref(cfg.a), Ref(cfg.b), mergeStrategy)
           IN /\ heap' = res.h
              /\ cfg' = IF res.threw THEN cfg ELSE [cfg EXCEPT !.r = res.ret.v]
              /\ Called("mergeObjects", "a", NoKeyPath, UNDEF, mergeStrategy, res)
        /\ UNCHANGED snap

MergeNext == DoMergeObjects

SpecMerge == MergeInit /\ [][MergeNext]_vars

(***************************************************************************)
(* ConfigurationBuilder.  The registered sources are ObjectConfiguration-  *)
(* Sources, whose load() resolves with the settings object the source was  *)
(* constructed with, and a source whose load() rejects.  build() is        *)
(* asynchronous: the call starts every load, the loads settle one by one   *)
(* in any order, Promise.all rejects with the first rejection or resolves  *)
(* when every load has resolved, and then reduce merges the resolved       *)
(* settings, in the order of the registrations, into a new Configuration.  *)
(***************************************************************************)
MaxSources == 2
MaxBuilds == 2

\* The settings objects of the ObjectConfigurationSources, in one heap:
\* {a: {b: {a: ["x", "y"]}}} at 1, {a: ["y", "z"]} at 5 and {a: null} at 7.
SourceHeap ==
    << MkObj("a" :> Ref(2)), MkObj("b" :> Ref(3)), MkObj("a" :> Ref(4)),
       MkArr(<<Str(1), Str(2)>>),
       MkObj("a" :> Ref(6)), MkArr(<<Str(2), Str(3)>>),
       MkObj("a" :> NULL) >>

ObjectSource(settings) == [kind |-> "object", settings |-> settings]
FailingSource == [kind |-> "failing", settings |-> 0]

\* The calls addConfigurationSource is made with; a keyPath left out is
\* undefined, which the default of merge's parameter turns into null.
Registrations ==
    { [configurationSource |-> ObjectSource(1), keyPath |-> NoKeyPath],
      [configurationSource |-> ObjectSource(5), keyPath |-> NoKeyPath],
      [configurationSource |-> ObjectSource(5), keyPath |-> <<"a", ".", "b">>],
      [configurationSource |-> ObjectSource(7), keyPath |-> NoKeyPath],
      [configurationSource |-> FailingSource, keyPath |-> NoKeyPath] }

\* The strategies build is called with; "undefined" is build().
BuildStrategies == {"undefined", MERGE_INDEXED, REPLACE_INDEXED}

\* The default value of merge's strategy parameter.
StrategyOrDefault(mergeStrategy) ==
    IF mergeStrategy = "undefined" THEN MERGE_INDEXED ELSE mergeStrategy

Error(n) == [t |-> "error", v |-> n]
TypeError == Error(0)
NoOutcome == [status |-> "pending", ret |-> UNDEF]

\* new ConfigurationBuilder(), no build called.
NewBuilder ==
    [pc |-> "idle", configurationSources |-> <<>>, mergeStrategy |-> "undefined",
     loads |-> <<>>, settled |-> <<>>, loaded |-> <<>>, calls |-> <<>>,
     configuration |-> 0, i |-> 0, merges |-> 0, builds |-> 0,
     outcome |-> NoOutcome]

BuildInit ==
    /\ heap = SourceHeap
    /\ preheap = SourceHeap
    /\ bld = NewBuilder
    /\ cfg = [a |-> 0, b |-> 0, r |-> 0]
    /\ last = NoCall
    /\ pre = Trees(SourceHeap, [a |-> 0, b |-> 0, r |-> 0])
    /\ snap = UNDEF
    /\ nops = 0

Untouched == UNCHANGED <<cfg, last, pre, snap, nops>>

\* No build is running: none was called, or the last one has settled.
Settled(b) == b.pc \in {"idle", "resolved", "rejected"}

\* builder.addConfigurationSource(configurationSource, keyPath)
AddConfigurationSource ==
    \E registration \in Registrations :
        /\ Settled(bld)
        /\ Len(bld.configurationSources) < MaxSources
        /\ bld' = [bld EXCEPT !.configurationSources = Append(@, registration)]
        /\ UNCHANGED <<heap, preheap>>
        /\ Untouched

\* builder.build(mergeStrategy), up to its await: map calls load() of every
\* registered source, in order.
BuildCall ==
    \E mergeStrategy \in BuildStrategies :
        /\ Settled(bld)
        /\ bld.builds < MaxBuilds
        /\ bld' = [bld EXCEPT
                     !.pc = "loading",
                     !.mergeStrategy = mergeStrategy,
                     !.loads = [n \in DOMAIN bld.configurationSources |-> "pending"],
                     !.loaded = [n \in DOMAIN bld.configurationSources |-> UNDEF],
                     !.calls = [n \in DOMAIN bld.configurationSources |-> 1],
                     !.settled = <<>>,
                     !.configuration = 0, !.i = 0, !.merges = 0,
                     !.builds = @ + 1,
                     !.outcome = NoOutcome]
        /\ preheap' = heap
        /\ UNCHANGED heap
        /\ Untouched

\* The promise load() returned for registration n resolves: an
\* ObjectConfigurationSource resolves with this.settings.
LoadResolves(n) ==
    /\ bld.pc \in {"loading", "rejected"}
    /\ n \in DOMAIN bld.loads
    /\ bld.loads[n] = "pending"
    /\ bld.configurationSources[n].configurationSource.kind = "object"
    /\ bld' = [bld EXCEPT
                 !.loads[n] = "resolved",
                 !.loaded[n] = Ref(bld.configurationSources[n].configurationSource.settings),
                 !.settled = Append(@, n)]
    /\ UNCHANGED <<heap, preheap>>
    /\ Untouched

\* A load that rejects and is taken for one that resolved with {}.
LoadRejectsIgnored(n) ==
    /\ bld.pc \in {"loading", "rejected"}
    /\ n \in DOMAIN bld.loads
    /\ bld.loads[n] = "pending"
    /\ bld.configurationSources[n].configurationSource.kind = "failing"
    /\ heap' = Alloc(heap, EmptyObj)
    /\ bld' = [bld EXCEPT
                 !.loads[n] = "resolved",
                 !.loaded[n] = Ref(NewAddr(heap)),
                 !.settled = Append(@, n)]
    /\ UNCHANGED preheap
    /\ Untouched

\* A load that rejects and is called again.
LoadRejectsRetried(n) ==
    /\ bld.pc \in {"loading", "rejected"}
    /\ n \in DOMAIN bld.loads
    /\ bld.loads[n] = "pending"
    /\ bld.configurationSources[n].configurationSource.kind = "failing"
    /\ bld.calls[n] < 2
    /\ bld' = [bld EXCEPT !.calls[n] = @ + 1]
    /\ UNCHANGED <<heap, preheap>>
    /\ Untouched

\* A load that rejects without rejecting Promise.all (as Promise.allSettled
\* would take it): build goes on waiting.
LoadRejectsUnobserved(n) ==
    /\ bld.pc \in {"loading", "rejected"}
    /\ n \in DOMAIN bld.loads
    /\ bld.loads[n] = "pending"
    /\ bld.configurationSources[n].configurationSource.kind = "failing"
    /\ bld' = [bld EXCEPT !.loads[n] = "rejected", !.settled = Append(@, n)]
    /\ UNCHANGED <<heap, preheap>>
    /\ Untouched

\* The promise load() returned for registration n rejects: Promise.all, and
\* with it build, rejects with the first rejection.
LoadRejects(n) ==
    /\ bld.pc \in {"loading", "rejected"}
    /\ n \in DOMAIN bld.loads
    /\ bld.loads[n] = "pending"
    /\ bld.configurationSources[n].configurationSource.kind = "failing"
    /\ bld' = [bld EXCEPT
                 !.loads[n] = "rejected",
                 !.settled = Append(@, n),
                 !.pc = "rejected",
                 !.outcome = IF bld.pc = "loading"
                             THEN [status |-> "rejected", ret |-> Error(n)]
                             ELSE @]
    /\ UNCHANGED <<heap, preheap>>
    /\ Untouched

\* resolvedSettings in the order the loads settled.
ResolvedAsSettled(b) ==
    [n \in DOMAIN b.settled |->
        [settings |-> b.loaded[b.settled[n]],
         keyPath |-> b.configurationSources[b.settled[n]].keyPath]]

\* resolvedSettings: Promise.all keeps the order of the promises.
ResolvedSettings(b) ==
    [n \in DOMAIN b.configurationSources |->
        [settings |-> b.loaded[n], keyPath |-> b.configurationSources[n].keyPath]]

\* A reduce that starts as soon as the first load has resolved.
StartReduceEarly ==
    /\ bld.pc = "loading"
    /\ bld.loads # <<>>
    /\ bld.loads[1] = "resolved"
    /\ heap' = Alloc(heap, EmptyObj)
    /\ bld' = [bld EXCEPT !.pc = "merging", !.configuration = NewAddr(heap), !.i = 1]
    /\ UNCHANGED preheap
    /\ Untouched

\* Promise.all resolves; reduce starts from new Configuration().
StartReduce ==
    /\ bld.pc = "loading"
    /\ \A n \in DOMAIN bld.loads : bld.loads[n] = "resolved"
    /\ heap' = Alloc(heap, EmptyObj)
    /\ bld' = [bld EXCEPT !.pc = "merging", !.configuration = NewAddr(heap), !.i = 1]
    /\ UNCHANGED preheap
    /\ Untouched

\* One call of the reducer: configuration.merge(new Configuration(settings),
\* keyPath, mergeStrategy).
MergeStep ==
    /\ bld.pc = "merging"
    /\ bld.i <= Len(bld.configurationSources)
    /\ LET item == ResolvedSettings(bld)[bld.i]
           res == Merge(heap, bld.configuration, item.settings.v, item.keyPath,
                        StrategyOrDefault(bld.mergeStrategy))
       IN /\ heap' = res.h
          /\ bld' = IF res.threw
                    THEN [bld EXCEPT !.pc = "rejected", !.merges = @ + 1,
                                     !.outcome = [status |-> "rejected", ret |-> TypeError]]
                    ELSE [bld EXCEPT !.configuration = res.ret.v, !.i = @ + 1,
                                     !.merges = @ + 1]
    /\ UNCHANGED preheap
    /\ Untouched

\* reduce returns and build resolves with the Configuration.
BuildReturns ==
    /\ bld.pc = "merging"
    /\ bld.i > Len(bld.configurationSources)
    /\ bld' = [bld EXCEPT !.pc = "resolved",
                          !.outcome = [status |-> "resolved", ret |-> Ref(bld.configuration)]]
    /\ UNCHANGED <<heap, preheap>>
    /\ Untouched

BuildNext ==
    \/ AddConfigurationSource
    \/ BuildCall
    \/ \E n \in DOMAIN bld.loads : LoadResolves(n)
    \/ \E n \in DOMAIN bld.loads : LoadRejects(n)
    \/ StartReduce
    \/ MergeStep
    \/ BuildReturns

SpecBuild == BuildInit /\ [][BuildNext]_vars

\* The event loop runs the reaction of a settled promise: once Promise.all
\* has resolved, the rest of build (the reduce, which is synchronous, and
\* the return) runs to its end.  Nothing makes a load settle.  The fairness
\* of MergeStep is written out: MergeStep is enabled exactly when
\* ReducerEnabled holds, and a build makes no more merges than it has
\* registrations, so WF_vars(MergeStep) says that ReducerEnabled does not
\* hold for ever.
ReducerEnabled == bld.pc = "merging" /\ bld.i <= Len(bld.configurationSources)

BuildFairness ==
    /\ WF_vars(StartReduce)
    /\ WF_vars(BuildReturns)
    /\ []<>~ReducerEnabled

SpecBuildFair == SpecBuild /\ BuildFairness

(***************************************************************************)
(* Settings trees as the specification sees them: a value is a scalar, a   *)
(* sequence or a mapping, and a path resolves through own keys only.       *)
(***************************************************************************)
ABSENT == [t |-> "absent", v |-> 0]
IsNode(t) == "kind" \in DOMAIN t
IsMapping(t) == IsNode(t) /\ t.kind = "obj"
IsSequence(t) == IsNode(t) /\ t.kind = "arr"
NonMapping(t) == t # ABSENT /\ ~IsMapping(t)

OwnChild(t, key) ==
    IF ~IsNode(t) THEN ABSENT
    ELSE IF t.kind = "arr" /\ IsIndexKey(key)
    THEN IF IndexOf(key) <= Len(t.elems) /\ t.elems[IndexOf(key)] # HOLE
         THEN t.elems[IndexOf(key)] ELSE ABSENT
    ELSE IF key \in DOMAIN t.props THEN t.props[key] ELSE ABSENT

RECURSIVE Resolve(_, _)
Resolve(t, segs) ==
    IF segs = <<>> THEN t ELSE Resolve(OwnChild(t, Head(segs)), Tail(segs))

Prefix(segs, n) == SubSeq(segs, 1, n)

\* Some proper prefix of the path resolves to a scalar or a sequence.
RunsThroughNonMapping(t, segs) ==
    \E n \in 1..(Len(segs) - 1) : NonMapping(Resolve(t, Prefix(segs, n)))

\* The walk reaches, through mappings, a mapping that lacks the next segment.
MissingFromMapping(t, segs) ==
    \E n \in 1..Len(segs) :
        /\ \A j \in 0..(n - 1) : IsMapping(Resolve(t, Prefix(segs, j)))
        /\ Resolve(t, Prefix(segs, n)) = ABSENT

\* Every segment of the path resolves.
Resolves(t, segs) == Resolve(t, segs) # ABSENT

\* The tree of the Configuration the last call was made on, now and before it.
SubjectTree == TreeOf(heap, Ref(cfg[last.c]))
SubjectTreeBefore == pre[last.c]
LastSegs == Split(last.kp)
InputsNow == [x \in {"a", "b"} |-> TreeOf(heap, Ref(cfg[x]))]
InputsBefore == [x \in {"a", "b"} |-> pre[x]]

(***************************************************************************)
(* Claims.                                                                 *)
(***************************************************************************)
\* C1: a.merge(b, kp, strategy) with a key path leaves a.all() and b.all()
\* structurally equal to what they were before the call.
C1_MergeAtKeyPathLeavesInputs ==
    (last.op = "merge" /\ last.kp # NoKeyPath) => InputsNow = InputsBefore

\* C2: a.merge(b) without a key path leaves a.all() and b.all() structurally
\* equal, at every depth, to what they were before the call.
C2_MergeLeavesInputs ==
    (last.op = "merge" /\ last.kp = NoKeyPath) => InputsNow = InputsBefore

\* C2 witness: a merge without key path that merged two nested mappings.
C2_Witness ==
    /\ last.op = "merge" /\ last.kp = NoKeyPath /\ ~last.threw
    /\ IsMapping(OwnChild(pre.a, "a")) /\ IsMapping(OwnChild(pre.b, "a"))
    /\ TreeOf(heap, Ref(cfg.r)) # pre.a
    /\ TreeOf(heap, Ref(cfg.r)) # pre.b

\* C3: whatever set, remove and clear calls are made on the Configuration a
\* merge returned, the receiver's all() stays what it was when merge returned.
C3_ResultNotAliased ==
    cfg.r # 0 => TreeOf(heap, Ref(cfg.a)) = snap

\* C4: after set(P, v), get(P) returns v and has(P) is true.
C4_SetThenGet ==
    last.op = "set" =>
        /\ ~last.threw
        /\ Get(heap, cfg[last.c], last.kp, NULL) = [ret |-> last.val, threw |-> FALSE]
        /\ Has(heap, cfg[last.c], last.kp) = [ret |-> TRUE_, threw |-> FALSE]

\* C5: set(P, v) raises no error, and after it every proper prefix of P
\* resolves to a mapping.
C5_SetRepairsPath ==
    last.op = "set" =>
        /\ ~last.threw
        /\ \A n \in 1..(Len(LastSegs) - 1) : IsMapping(Resolve(SubjectTree, Prefix(LastSegs, n)))

\* C6: when a proper prefix of P resolves to a scalar or a sequence, has(P)
\* returns false and get(P, d) returns d, and neither raises an error.
C6_ThroughNonMapping ==
    (last.op \in {"has", "get"} /\ RunsThroughNonMapping(SubjectTree, LastSegs)) =>
        /\ ~last.threw
        /\ last.op = "has" => last.ret = FALSE_
        /\ last.op = "get" => last.ret = last.val

\* C7: when the walk of P reaches a mapping that lacks the next segment, has(P)
\* is false and get(P, d) returns d (null without a default); when every
\* segment resolves, has(P) is true and get(P, d) returns the resolved value.
C7_HasGetResult ==
    /\ (last.op = "has" /\ MissingFromMapping(SubjectTree, LastSegs)) =>
            (~last.threw /\ last.ret = FALSE_)
    /\ (last.op = "get" /\ MissingFromMapping(SubjectTree, LastSegs)) =>
            (~last.threw /\ last.ret = last.val)
    /\ (last.op = "has" /\ Resolves(SubjectTree, LastSegs)) =>
            (~last.threw /\ last.ret = TRUE_)
    /\ (last.op = "get" /\ Resolves(SubjectTree, LastSegs)) =>
            (~last.threw /\ TreeOf(heap, last.ret) = Resolve(SubjectTree, LastSegs))

\* C8: after remove(P) returns, has(P) is false.
C8_RemoveThenHas ==
    (last.op = "remove" /\ ~last.threw) =>
        Has(heap, cfg[last.c], last.kp) = [ret |-> FALSE_, threw |-> FALSE]

C10_RemoveThroughNonMapping ==
    (last.op = "remove" /\ RunsThroughNonMapping(SubjectTreeBefore, LastSegs)) =>
        (~last.threw /\ SubjectTree = SubjectTreeBefore)

\* C11: the tree of a.merge(b, kp, strategy) is a's tree with the value at kp
\* replaced by mergeObjects(a.get(kp, {}), b.all(), strategy); every key that
\* is not on the path kp keeps its value.
MergedAtKeyPath ==
    LET h0 == Alloc(preheap, EmptyObj)
        base == Get(h0, cfg.a, last.kp, Ref(NewAddr(preheap)))
        m == MergeObjects(h0, base.ret, Ref(cfg.b), last.strat)
    IN TreeOf(m.h, m.ret)

SiblingsKept(before, after, segs) ==
    \A n \in 1..Len(segs) :
        LET old == Resolve(before, Prefix(segs, n - 1))
            new == Resolve(after, Prefix(segs, n - 1))
        IN IsNode(old) =>
            /\ \A k \in DOMAIN old.props \ {segs[n]} : OwnChild(new, k) = old.props[k]
            /\ old.kind = "arr" =>
                 \A i \in DOMAIN old.elems :
                    IndexKeys[i] # segs[n] => OwnChild(new, IndexKeys[i]) = OwnChild(old, IndexKeys[i])

C11_Equation ==
    /\ Resolve(TreeOf(heap, Ref(cfg.r)), LastSegs) = MergedAtKeyPath
    /\ SiblingsKept(pre.a, TreeOf(heap, Ref(cfg.r)), LastSegs)

C11_MergeAtKeyPath ==
    (last.op = "merge" /\ last.kp # NoKeyPath) => (~last.threw /\ C11_Equation)

(***************************************************************************)
(* mergeObjects returned r for the mappings a and b.                       *)
(***************************************************************************)
Merged == last.op = "mergeObjects" /\ ~last.threw
ResultTree == TreeOf(heap, Ref(cfg.r))
InBoth == DOMAIN pre.a.props \cap DOMAIN pre.b.props
BothMappings(x, y) == IsMapping(x) /\ IsMapping(y)
BothSequences(x, y) == IsSequence(x) /\ IsSequence(y)
NoHoles(t) == \A i \in DOMAIN t.elems : t.elems[i] # HOLE
Sequence(elems) == [kind |-> "arr", props |-> NoProps, elems |-> elems]

\* C12: under MERGE_INDEXED a key that holds a sequence in a and in b gets
\* the union of the two: the elements of a[k] then b[k], each value once, at
\* its first occurrence, the elements compared by value.
C12_IndexedUnion ==
    (Merged /\ last.strat = MERGE_INDEXED) =>
        \A k \in InBoth :
            LET x == pre.a.props[k]
                y == pre.b.props[k]
            IN (BothSequences(x, y) /\ NoHoles(x) /\ NoHoles(y)) =>
                  OwnChild(ResultTree, k) = Sequence(Dedup(x.elems \o y.elems))

\* C13: a key of both a and b whose two values are not both mappings, and
\* (under MERGE_INDEXED) not both sequences, gets exactly the value of b.
TakenFromB(k) ==
    /\ k \in InBoth
    /\ ~BothMappings(pre.a.props[k], pre.b.props[k])
    /\ last.strat = REPLACE_INDEXED \/ ~BothSequences(pre.a.props[k], pre.b.props[k])

MergedBelow(path) ==
    LET x == GetWalk(heap, Ref(cfg.a), path, UNDEF).ret
        y == GetWalk(heap, Ref(cfg.b), path, UNDEF).ret
        m == MergeObjects(heap, x, y, last.strat)
    IN TreeOf(m.h, m.ret)

MappingPaths ==
    { path \in UNION { [1..n -> {"a", "b"}] : n \in 1..3 } :
        \A n \in 1..Len(path) :
            BothMappings(Resolve(pre.a, SubSeq(path, 1, n)),
                         Resolve(pre.b, SubSeq(path, 1, n))) }

ElementsOf(t) == IF IsSequence(t) THEN {t.elems[i] : i \in DOMAIN t.elems} ELSE {}

C14_Recursive ==
    Merged =>
        /\ \A path \in MappingPaths : Resolve(ResultTree, path) = MergedBelow(path)
        /\ \A k \in InBoth :
              \A e \in ElementsOf(OwnChild(ResultTree, k)) :
                  IsMapping(e) => e \in ElementsOf(pre.a.props[k]) \cup ElementsOf(pre.b.props[k])

C14_Witness ==
    /\ Merged
    /\ \E path \in MappingPaths :
          /\ Len(path) = 2
          /\ Resolve(ResultTree, path) \notin {Resolve(pre.a, path), Resolve(pre.b, path)}
    /\ \E k \in InBoth :
          /\ \E e \in ElementsOf(pre.a.props[k]) : IsMapping(e)
          /\ \E e \in ElementsOf(pre.b.props[k]) : IsMapping(e)

RECURSIVE LeftFold(_, _, _, _)
LeftFold(h, accumulator, registrations, strategy) ==
    IF registrations = <<>>
    THEN [h |-> h, ret |-> Ref(accumulator), threw |-> FALSE]
    ELSE LET m == Merge(h, accumulator, Head(registrations).configurationSource.settings,
                        Head(registrations).keyPath, strategy)
         IN IF m.threw THEN m
            ELSE LeftFold(m.h, m.ret.v, Tail(registrations), strategy)

FoldOver(h, registrations, mergeStrategy) ==
    LeftFold(Alloc(h, EmptyObj), NewAddr(h), registrations, StrategyOrDefault(mergeStrategy))

\* The registrations the last build call found, and how it ended.
BuildSources == SubSeq(bld.configurationSources, 1, Len(bld.loads))
BuildEnded == bld.pc \in {"resolved", "rejected"}
AllLoaded == \A n \in DOMAIN bld.loads : bld.loads[n] = "resolved"
Failed(n) ==
    /\ bld.configurationSources[n].configurationSource.kind = "failing"
    /\ \E k \in DOMAIN bld.settled : bld.settled[k] = n
BuiltTree == TreeOf(heap, bld.outcome.ret)

\* Deep equality of a value of one heap and a value of another; a cyclic
\* value is unfolded to the same depth on both sides.
SameTree(h1, val1, h2, val2) ==
    LET fuel == IF Len(h1) > Len(h2) THEN Len(h1) ELSE Len(h2)
    IN TreeAt(h1, val1, fuel) = TreeAt(h2, val2, fuel)

\* build ended as the fold f did: with its tree, or with its TypeError.
EndedAs(f) ==
    IF f.threw THEN bld.outcome = [status |-> "rejected", ret |-> TypeError]
    ELSE bld.outcome.status = "resolved" /\ SameTree(heap, bld.outcome.ret, f.h, f.ret)

\* C16: for given registrations and loaded trees build ends the same way in
\* whatever order the loads complete: the sources are merged in the order
\* they were registered, so the later registration wins a conflicting key.
C16_AnyCompletionOrder ==
    (BuildEnded /\ AllLoaded) =>
        EndedAs(FoldOver(preheap, BuildSources, bld.mergeStrategy))

C16_Witness ==
    /\ bld.pc = "resolved"
    /\ bld.settled = <<2, 1>>
    /\ \A n \in {1, 2} : bld.configurationSources[n].keyPath = NoKeyPath
    /\ TreeOf(preheap, bld.loaded[1]).props["a"] # TreeOf(preheap, bld.loaded[2]).props["a"]
    /\ BuiltTree.props["a"] = TreeOf(preheap, bld.loaded[2]).props["a"]

\* C17: once the load of a registered source has failed, build fails with the
\* failure of a source that failed, it has not resolved and does not resolve,
\* and no merge is made, whatever the other loads do and in whatever order.
C17_FailureRejects ==
    (\E n \in DOMAIN bld.loads : Failed(n)) =>
        /\ bld.pc = "rejected"
        /\ bld.outcome.status = "rejected"
        /\ bld.outcome.ret \in {Error(n) : n \in {m \in DOMAIN bld.loads : Failed(m)}}
        /\ bld.merges = 0
        /\ bld.configuration = 0

C17_Witness ==
    /\ Len(bld.settled) = 2
    /\ Failed(bld.settled[1])
    /\ bld.loads[bld.settled[2]] = "resolved"
    /\ bld.outcome = [status |-> "rejected", ret |-> Error(bld.settled[1])]

\* C18: when every load succeeds, build resolves to the left fold of merge
\* over the registrations in their order, starting from an empty
\* Configuration; without registrations, to the empty mapping.
C18_LeftFold ==
    (BuildEnded /\ AllLoaded) =>
        LET f == FoldOver(preheap, BuildSources, bld.mergeStrategy)
        IN /\ bld.outcome.status = "resolved"
           /\ ~f.threw
           /\ SameTree(heap, bld.outcome.ret, f.h, f.ret)
           /\ BuildSources = <<>> => BuiltTree = EmptyObj

\* C19: a build made after earlier builds on the same builder ends as a
\* build on a new builder with the same registrations and the settings the
\* sources were constructed with.
C19_BuildsIndependent ==
    (BuildEnded /\ AllLoaded) =>
        EndedAs(FoldOver(SourceHeap, BuildSources, bld.mergeStrategy))

\* C20: after clear() all() is the empty mapping, has(P) is false and
\* get(P, d) returns d for every path P; a set made on the cleared
\* Configuration yields a tree that holds only what was set.
RECURSIVE OnlyPath(_, _)
OnlyPath(segs, t) ==
    IF segs = <<>> THEN t
    ELSE MkObj(Head(segs) :> OnlyPath(Tail(segs), t))

C20_ClearEmpties ==
    /\ last.op = "clear" =>
          /\ SubjectTree = EmptyObj
          /\ \A P \in KeyPaths :
                /\ Has(heap, cfg[last.c], P) = [ret |-> FALSE_, threw |-> FALSE]
                /\ Get(heap, cfg[last.c], P, Str(9)) = [ret |-> Str(9), threw |-> FALSE]
    /\ (last.op = "set" /\ SubjectTreeBefore = EmptyObj) =>
          /\ ~last.threw
          /\ SubjectTree = OnlyPath(LastSegs, TreeOf(heap, last.val))

\* C21: merging with an empty Configuration is an identity under either
\* strategy: Configuration({}).merge(Configuration(t)) and
\* Configuration(t).merge(Configuration({})) both have the tree t.
MergedAtRoot == last.op = "merge" /\ last.kp = NoKeyPath

C21_SingleSource ==
    (bld.pc = "resolved" /\ Len(bld.loads) = 1 /\ bld.configurationSources[1].keyPath = NoKeyPath)
        => SameTree(heap, bld.outcome.ret, heap, bld.loaded[1])

\* C22: after any sequence of set, remove, clear and merge calls the tree
\* of a Configuration is well formed: the root is a mapping, every value is a
\* scalar, a sequence or a mapping, no sequence has a named key or a hole,
\* and there is no cycle.
Scalar(t) == ~IsNode(t) /\ t.t \in {"string", "number", "boolean", "null"}

RECURSIVE WellFormed(_)
WellFormed(t) ==
    IF ~IsNode(t) THEN Scalar(t)
    ELSE /\ \A k \in DOMAIN t.props : WellFormed(t.props[k])
         /\ \A i \in DOMAIN t.elems : WellFormed(t.elems[i])
         /\ IsSequence(t) => DOMAIN t.props = {}

C22_StaysWellFormed ==
    \A x \in {"a", "r"} :
        cfg[x] # 0 =>
            /\ IsMapping(TreeOf(heap, Ref(cfg[x])))
            /\ WellFormed(TreeOf(heap, Ref(cfg[x])))

\* C23: build does not modify the settings a load returned: when build has
\* completed, the tree of every loaded settings object is the tree it had
\* when its load resolved.
C23_LoadedTreesKept ==
    BuildEnded =>
        \A n \in DOMAIN bld.loads :
            bld.loads[n] = "resolved" =>
                SameTree(heap, bld.loaded[n], preheap, bld.loaded[n])

\* C24: no merge is made before every load of the build has resolved; the
\* merges then follow one another in the order of the registrations (the
\* k-th merge is that of the k-th registration) and no load completes
\* between them.
MergeMade == bld'.merges = bld.merges + 1

MergeOfRegistration(n) ==
    LET m == Merge(heap, bld.configuration, bld.loaded[n].v,
                   bld.configurationSources[n].keyPath,
                   StrategyOrDefault(bld.mergeStrategy))
    IN /\ heap' = m.h
       /\ IF m.threw THEN bld'.pc = "rejected"
          ELSE bld'.configuration = m.ret.v

C24_MergesAfterLoads ==
    /\ [](bld.pc = "merging" => AllLoaded)
    /\ [][ /\ MergeMade =>
                /\ AllLoaded
                /\ MergeOfRegistration(bld.merges + 1)
           /\ (bld.pc = "merging" /\ bld'.pc # "loading") =>
                /\ bld'.settled = bld.settled
                /\ bld'.loads = bld.loads ]_vars

C24_Witness ==
    /\ bld.pc = "merging"
    /\ bld.merges = 2
    /\ bld.settled = <<2, 1>>

\* C25: in one build call load() of every registered source is called
\* exactly once, whether loads resolve or reject: a rejected load is not
\* called again, and the loads of the other sources are started all the same.
BuildCalled == bld.builds > 0
Started(n) == bld.calls[n] >= 1 /\ bld.loads[n] \in {"pending", "resolved", "rejected"}

C25_EachLoadOnce ==
    BuildCalled =>
        /\ Len(bld.calls) = Len(bld.loads)
        /\ bld.pc \in {"loading", "merging"} => Len(bld.calls) = Len(bld.configurationSources)
        /\ \A n \in DOMAIN bld.calls : bld.calls[n] = 1 /\ Started(n)

C25_Witness ==
    /\ bld.settled = <<2>>
    /\ Failed(2)
    /\ bld.loads[1] = "pending"
    /\ bld.calls = <<1, 1>>

\* C26: once every load of a build has resolved or rejected, build
\* eventually completes, resolved or rejected; and once a load has rejected,
\* build completes with a rejection, also while another load stays pending.
Waiting == bld.pc \in {"loading", "merging"}
SomePending == \E n \in DOMAIN bld.loads : bld.loads[n] = "pending"
SomeRejected == \E n \in DOMAIN bld.loads : bld.loads[n] = "rejected"

C26_BuildCompletes ==
    /\ (Waiting /\ ~SomePending) ~> BuildEnded
    /\ SomeRejected ~> (bld.pc = "rejected" /\ bld.outcome.status = "rejected")

C26_Witness ==
    /\ bld.pc = "rejected"
    /\ Len(bld.loads) = 2
    /\ Failed(1)
    /\ bld.loads[2] = "pending"
    /\ bld.outcome = [status |-> "rejected", ret |-> Error(1)]

====
